---- MODULE Spec2Model ----
(***************************************************************************)
(* A model of reversion/admin.py (VersionAdmin): the revision boundary     *)
(* opened by create_revision, the speculative revert of revisionform_view  *)
(* inside transaction.atomic, the ordinary views wrapped in a boundary,    *)
(* two execution contexts running such views side by side, the             *)
(* auto-registration walk of _reversion_autoregister and the registration  *)
(* of an admin's model and inlines by __init__.                            *)
(*                                                                         *)
(* The revision manager, its context manager and Revision.revert live in   *)
(* reversion/revisions.py and reversion/models.py; they are modelled from  *)
(* the specification (sections 3, 4.1, 4.2 and 4.3).                       *)
(***************************************************************************)
EXTENDS Integers, Sequences, FiniteSets, TLC

\* ---------------------------------------------------------------- bounds

\* Field values an entity can hold are 1..MaxVal; 0 is "row absent".
MaxVal == 2
\* Requests served one after the other by the one execution context.
MaxRequests == 1
\* Revision boundaries the host has already opened around a view.
MaxNest == 1

\* ------------------------------------------------------------- universes

\* The root entity of the admin and one sub-entity shown as an inline.
Root == "E"
Sub == "S"
Entities == {Root, Sub}

Users == {"alice"}

OrdinaryViews == {"add_view", "change_view", "changelist_view"}
Views == OrdinaryViews \cup {"revisionform_view"}
Methods == {"GET", "POST"}
Statuses == {200, 302}

\* Exceptions in flight; "none" is normal control flow.
NoExc == "none"
RevertError == "RevertError"
RollBackRevisionView == "RollBackRevisionView"
OtherError == "OtherError"
PersistenceFailure == "PersistenceFailure"

\* What the storage primitive does when a revision is written.
PersistOutcomes == {"ok", "fail", "partial"}

Front(s) == SubSeq(s, 1, Len(s) - 1)
Last(s) == s[Len(s)]

\* ------------------------------------------------- transaction primitive
\* A database is [cur, durable, sp]: the connection's view, what is on
\* disk, and one saved view per open atomic block (the savepoints).

\* Entering "with transaction.atomic()": take a savepoint.
AtomicEnter(d) == [d EXCEPT !.sp = Append(@, d.cur)]

\* Leaving the block: with an exception in flight roll back to the block's
\* savepoint, otherwise release it; the outermost release commits.
AtomicExit(d, failed) ==
    IF failed
    THEN [d EXCEPT !.cur = Last(d.sp), !.sp = Front(@)]
    ELSE [d EXCEPT !.sp = Front(@),
                   !.durable = IF Len(d.sp) = 1 THEN d.cur ELSE @]

\* A write through the connection; it autocommits outside any block.
Write(d, newcur) ==
    [d EXCEPT !.cur = newcur,
              !.durable = IF d.sp = <<>> THEN newcur ELSE @]

\* ------------------------------------------------------ revision boundary
\* A comment is a message and, for the revert message, the revision whose
\* date_created it quotes.
Comment(text, on) == [text |-> text, on |-> on]
NoComment == Comment("", 0)

\* The boundary of one execution context (specification 3 and 4.2).

Cleared ==
    [depth |-> 0, user |-> "nobody", comment |-> NoComment, ignoreDup |-> FALSE,
     touched |-> {}, invalid |-> FALSE]

is_active(c) == c.depth > 0

\* begin(): re-entrant open.
start(c) == [c EXCEPT !.depth = @ + 1]

\* The setters act on the current boundary only.
set_user(c, u) == IF is_active(c) THEN [c EXCEPT !.user = u] ELSE c
set_comment(c, m) == IF is_active(c) THEN [c EXCEPT !.comment = m] ELSE c
set_ignore_duplicates(c, b) ==
    IF is_active(c) THEN [c EXCEPT !.ignoreDup = b] ELSE c

\* An entity saved while a boundary is active is touched by it.
touch(c, es) == IF is_active(c) THEN [c EXCEPT !.touched = @ \cup es] ELSE c

\* The index of the latest revision holding a snapshot of e, 0 if none.
LatestWith(revs, e) ==
    LET S == {i \in 1..Len(revs) : e \in DOMAIN revs[i].snaps}
    IN IF S = {} THEN 0 ELSE CHOOSE i \in S : \A j \in S : j <= i

\* Every touched entity's state equals its latest snapshot.
IsDuplicate(c, cur) ==
    \A e \in c.touched :
        /\ LatestWith(cur.revs, e) # 0
        /\ cur.revs[LatestWith(cur.revs, e)].snaps[e] = cur.ents[e]

\* The revision row written at boundary close: one snapshot per touched
\* entity, holding its state at that time.
NewRevision(c, cur) ==
    [snaps |-> [e \in c.touched |-> cur.ents[e]],
     comment |-> c.comment, user |-> c.user]

\* A revision row whose snapshots were not written.
PartialRevision(c) ==
    [snaps |-> [e \in {} |-> 0], comment |-> c.comment, user |-> c.user]

ShouldPersist(c, cur) ==
    /\ c.touched # {}
    /\ ~c.invalid
    /\ ~(c.ignoreDup /\ IsDuplicate(c, cur))

\* end(): leave one level; an exception passing through discards the
\* boundary; the outermost exit persists one revision and clears the
\* boundary whatever happens.  The result is the boundary, the database
\* and the exception in flight afterwards.
end(c, d, excIn, po) ==
    LET c1 == IF excIn # NoExc THEN [c EXCEPT !.invalid = TRUE] ELSE c
    IN IF c.depth > 1
       THEN [ctx |-> [c1 EXCEPT !.depth = @ - 1], db |-> d, exc |-> excIn]
       ELSE IF ~ShouldPersist(c1, d.cur)
            THEN [ctx |-> Cleared, db |-> d, exc |-> excIn]
            ELSE CASE po = "ok" ->
                        [ctx |-> Cleared,
                         db |-> Write(d, [d.cur EXCEPT !.revs =
                                    Append(@, NewRevision(c1, d.cur))]),
                         exc |-> excIn]
                   [] po = "partial" ->
                        [ctx |-> Cleared,
                         db |-> Write(d, [d.cur EXCEPT !.revs =
                                    Append(@, PartialRevision(c1))]),
                         exc |-> PersistenceFailure]
                   [] OTHER ->
                        [ctx |-> Cleared, db |-> d, exc |-> PersistenceFailure]

\* Revision.revert(delete=True): reinstate every entity of the revision and
\* delete the entities of the group the revision does not hold.
revert(cur, rev) ==
    [cur EXCEPT !.ents =
        [e \in Entities |-> IF e \in DOMAIN rev.snaps THEN rev.snaps[e] ELSE 0]]

\* The entities revert saves (each save touches an active boundary).
RevertSaves(rev) == DOMAIN rev.snaps

\* ------------------------------------------------------------ registration
\* Model types and their concrete parents: for each type the sequence of
\* (parent class, parent-link field) pairs of _meta.parents, in order.

Types == {"A", "B", "C", "D"}

Link(cls, field) == [cls |-> cls, field |-> field]

\* C extends B extends A; D stands alone.
Chain ==
    [t \in Types |->
        CASE t = "B" -> <<Link("A", "a_ptr")>>
          [] t = "C" -> <<Link("B", "b_ptr")>>
          [] OTHER -> <<>>]

\* D extends C extends B extends A.
DeepChain ==
    [t \in Types |->
        CASE t = "B" -> <<Link("A", "a_ptr")>>
          [] t = "C" -> <<Link("B", "b_ptr")>>
          [] t = "D" -> <<Link("C", "c_ptr")>>
          [] OTHER -> <<>>]

\* D extends B and C, which both extend A.
Diamond ==
    [t \in Types |->
        CASE t = "B" -> <<Link("A", "a_ptr")>>
          [] t = "C" -> <<Link("A", "a_ptr")>>
          [] t = "D" -> <<Link("B", "b_ptr"), Link("C", "c_ptr")>>
          [] OTHER -> <<>>]

Hierarchies == {Chain, DeepChain, Diamond}

\* The follow fields a caller passes to _reversion_autoregister.
ExtraFollows == {<<>>, <<"items">>, <<"a_ptr">>}

\* A registry: the hierarchy it is about, the registered types, the follow
\* fields registered for each, and the order of the register calls.
EmptyRegistry(h) ==
    [hier |-> h, registered |-> {}, follow |-> [t \in Types |-> <<>>],
     order |-> <<>>]

NoCall == [op |-> "none", model |-> "none", follow |-> <<>>, inlines |-> <<>>,
           before |-> EmptyRegistry(Chain)]

is_registered(r, model) == model \in r.registered

\* revision_manager.register(model, follow=...).
register(r, model, follow) ==
    [r EXCEPT !.registered = @ \cup {model},
              !.follow[model] = follow,
              !.order = Append(@, model)]

\* reversion_register: "self.revision_manager.register(model, **kwargs)".
reversion_register(r, model, follow) == register(r, model, follow)

\* The parent-link field names of a parents sequence, in order.
ParentFields(ps) == [i \in 1..Len(ps) |-> ps[i].field]

RECURSIVE reversion_autoregister(_, _, _)
RECURSIVE AutoregisterParents(_, _, _)

\* The recursive calls of the loop over the parents, each with an empty
\* follow tuple, from the i-th parent on.
AutoregisterParents(r, ps, i) ==
    IF i > Len(ps) THEN r
    ELSE AutoregisterParents(reversion_autoregister(r, ps[i].cls, <<>>), ps, i + 1)

\* A mutant of reversion_autoregister: the type is registered before its
\* parents.
reversion_autoregister_child_first(r, model, follow) ==
    IF is_registered(r, model) THEN r
    ELSE LET ps == r.hier[model]
         IN AutoregisterParents(
                reversion_register(r, model, follow \o ParentFields(ps)), ps, 1)

\* A mutant of reversion_autoregister: the type and its parents are
\* registered whether or not they already are.
reversion_autoregister_no_guard(r, model, follow) ==
    LET ps == r.hier[model]
    IN reversion_register(AutoregisterParents(r, ps, 1), model,
                          follow \o ParentFields(ps))

\* A mutant of reversion_autoregister: a registered type is not registered
\* again, but its parents are still walked.
reversion_autoregister_walks_parents(r, model, follow) ==
    LET ps == r.hier[model]
    IN IF is_registered(r, model) THEN AutoregisterParents(r, ps, 1)
       ELSE reversion_register(AutoregisterParents(r, ps, 1), model,
                               follow \o ParentFields(ps))

\* _reversion_autoregister(model, follow): nothing for a registered type;
\* otherwise each parent is auto-registered and its field name appended to
\* this call's follow, and then the type is registered.
reversion_autoregister(r, model, follow) ==
    IF is_registered(r, model) THEN r
    ELSE LET ps == r.hier[model]
         IN reversion_register(AutoregisterParents(r, ps, 1), model,
                               follow \o ParentFields(ps))

\* ------------------------------------------------------ inline introspection
\* The relations of the model types: foreign keys (and one-to-one parent
\* links) with their target, whether the reverse relation is hidden and
\* its accessor name, and generic relations with the names of their
\* content-type and object-id fields.

None == "None"

ForeignKey(name, target, hidden, accessor) ==
    [name |-> name, target |-> target, hidden |-> hidden, accessor |-> accessor]

\* The accessor of the reverse side of a parent link: the subtype's name.
ChildAccessor(t) ==
    CASE t = "A" -> "a" [] t = "B" -> "b" [] t = "C" -> "c" [] OTHER -> "d"

\* A type's own foreign keys: D belongs to an A through "owner" and names
\* an A as "editor" with the reverse relation hidden; an A has a parent A.
OwnForeignKeys(t) ==
    CASE t = "D" -> <<ForeignKey("owner", "A", FALSE, "items"),
                      ForeignKey("editor", "A", TRUE, "+")>>
      [] t = "A" -> <<ForeignKey("parent", "A", FALSE, "children")>>
      [] OTHER -> <<>>

\* inline_model._meta.get_fields(), the single-valued relations among them:
\* the parent links and then the type's own foreign keys.
get_fields(h, t) ==
    [i \in 1..Len(h[t]) |->
        ForeignKey(h[t][i].field, h[t][i].cls, FALSE, ChildAccessor(t))]
    \o OwnForeignKeys(t)

\* inline_model._meta.get_field(fk_name).
get_field(h, t, name) ==
    LET fs == get_fields(h, t)
    IN fs[CHOOSE i \in 1..Len(fs) : fs[i].name = name]

\* self.model._meta.virtual_fields: an A has the generic relation "tags"
\* to D.
virtual_fields(t) ==
    IF t = "A"
    THEN <<[name |-> "tags", model |-> "D", object_id_field_name |-> "object_id",
            content_type_field_name |-> "content_type"]>>
    ELSE <<>>

RECURSIVE issubclass(_, _, _)
\* issubclass(t, u) over the hierarchy.
issubclass(h, t, u) ==
    \/ t = u
    \/ \E i \in 1..Len(h[t]) : issubclass(h, h[t][i].cls, u)

\* The first position of a sequence in a set of positions, 0 if none.
FirstOf(S) == IF S = {} THEN 0 ELSE CHOOSE i \in S : \A j \in S : i <= j

\* Inline admin classes: a generic inline, a foreign-key inline (fk_name
\* given or None), or a class that is neither.
Inline(kind, model, fk_name) ==
    [kind |-> kind, model |-> model, fk_name |-> fk_name,
     ct_field |-> "content_type", ct_fk_field |-> "object_id"]

\* _reversion_introspect_inline_admin(inline) of the admin of "model".
reversion_introspect_inline_admin(h, model, inline) ==
    CASE inline.kind = "generic" ->
            LET vf == virtual_fields(model)
                k == FirstOf({i \in 1..Len(vf) :
                        /\ vf[i].model = inline.model
                        /\ vf[i].object_id_field_name = inline.ct_fk_field
                        /\ vf[i].content_type_field_name = inline.ct_field})
            IN [inline_model |-> inline.model,
                follow_field |-> IF k = 0 THEN None ELSE vf[k].name,
                fk_name |-> inline.ct_fk_field]
      [] inline.kind = "fk" ->
            LET fs == get_fields(h, inline.model)
                k == FirstOf({i \in 1..Len(fs) : issubclass(h, model, fs[i].target)})
                fk_name == IF inline.fk_name # None THEN inline.fk_name
                           ELSE IF k = 0 THEN None ELSE fs[k].name
            IN [inline_model |-> inline.model,
                follow_field |->
                    IF fk_name # None /\ ~get_field(h, inline.model, fk_name).hidden
                    THEN get_field(h, inline.model, fk_name).accessor
                    ELSE None,
                fk_name |-> fk_name]
      [] OTHER ->
            [inline_model |-> None, follow_field |-> None, fk_name |-> None]

RECURSIVE AdminInlines(_, _, _, _, _)
\* The loop of __init__ over self.inlines, from the i-th inline on: each
\* inline's model is auto-registered with no follow fields and its follow
\* field, when there is one, is appended to inline_fields.
AdminInlines(r, model, inlines, i, inline_fields) ==
    IF i > Len(inlines) THEN [reg |-> r, inline_fields |-> inline_fields]
    ELSE LET x == reversion_introspect_inline_admin(r.hier, model, inlines[i])
             r1 == IF x.inline_model # None
                   THEN reversion_autoregister(r, x.inline_model, <<>>)
                   ELSE r
             f1 == IF x.follow_field # None
                   THEN Append(inline_fields, x.follow_field)
                   ELSE inline_fields
         IN AdminInlines(r1, model, inlines, i + 1, f1)

\* __init__, the automatic registration: nothing for a registered model;
\* otherwise the inlines and then the model with the inline fields.
admin_init(r, model, inlines) ==
    IF is_registered(r, model) THEN r
    ELSE LET s == AdminInlines(r, model, inlines, 1, <<>>)
         IN reversion_autoregister(s.reg, model, s.inline_fields)

\* The follow fields the inlines of an admin resolve to, in declaration
\* order.
InlineFields(h, model, inlines) ==
    LET f == [i \in 1..Len(inlines) |->
                reversion_introspect_inline_admin(h, model, inlines[i]).follow_field]
    IN SelectSeq(f, LAMBDA x : x # None)

\* ------------------------------------------------------------- the state

VARIABLES
    db,        \* [cur, durable, sp]
    ctx,       \* the revision boundary of the execution context
    ignore_duplicate_revisions,  \* the admin class's attribute
    pc,        \* where the current request is
    req,       \* the request being served
    pre,       \* the database at the call of the view
    response,  \* the local variable "response" of revisionform_view
    exc,       \* the exception in flight
    result,    \* what the caller of the view got
    events,    \* what the current request did, in order
    nreq,      \* requests started so far
    reg,       \* the revision manager's registry, over a type hierarchy
    call,      \* the last registration call and the registry before it
    locals,    \* the boundary each execution context's storage slot holds
    units      \* the concurrent units of work, one per execution context

vars == <<db, ctx, ignore_duplicate_revisions, pc, req, pre, response, exc,
          result, events, nreq, reg, call, locals, units>>

viewVars == <<db, ctx, ignore_duplicate_revisions, pc, req, pre, response,
              exc, result, events, nreq, locals, units>>

NoRequest ==
    [view |-> "none", method |-> "GET", user |-> "nobody", version |-> 0,
     ambient |-> FALSE, nest |-> 0]

NoEnts == [e \in Entities |-> 0]

NoResponse == [status |-> 0, rendered |-> FALSE, artifact |-> NoEnts,
               template |-> "change_form"]

NoResult == [kind |-> "none", exc |-> NoExc, response |-> NoResponse]

\* A revision row holding the entities that exist in ents.
RevisionOf(ents, text) ==
    [snaps |-> [e \in {x \in Entities : ents[x] # 0} |-> ents[e]],
     comment |-> Comment(text, 0), user |-> "alice"]

\* The histories the database starts with: the root was added with value 1,
\* alone, or with its inline and then changed to MaxVal without it.
Histories ==
    {<<RevisionOf([e \in Entities |-> IF e = Root THEN 1 ELSE 0], "Initial version.")>>,
     <<RevisionOf([e \in Entities |-> 1], "Initial version."),
       RevisionOf([e \in Entities |-> IF e = Root THEN MaxVal ELSE 0], "Changed.")>>}

\* The database holds a history and the present rows; the root may have
\* been deleted since (recover_view), the boundary is closed.
ViewInit ==
    /\ \E h \in Histories, r \in {0, 1, MaxVal}, s \in 0..1 :
        LET c0 == [ents |-> [e \in Entities |-> IF e = Root THEN r ELSE s],
                   revs |-> h, w |-> FALSE]
        IN db = [cur |-> c0, durable |-> c0, sp |-> <<>>]
    /\ ctx = Cleared
    /\ ignore_duplicate_revisions \in BOOLEAN
    /\ pc = "idle"
    /\ req = NoRequest
    /\ pre = db
    /\ response = NoResponse
    /\ exc = NoExc
    /\ result = NoResult
    /\ events = <<>>
    /\ nreq = 0

\* The execution contexts (threads) of the process and the user of the
\* request each one serves.
Contexts == {"t1", "t2"}

Actor == [t \in Contexts |-> IF t = "t1" THEN "alice" ELSE "bob"]

\* A mutant of revision_context_manager: one boundary for the process.
revision_context_manager_shared(t) == "t1"

\* revision_context_manager: the revision manager's context manager, whose
\* state is the calling execution context's own.
revision_context_manager(t) == t

\* A unit of work: where it is, its admin's duplicate policy, what it logged
\* before its boundary, what it saved and logged inside it, the host's own
\* log, what closing its boundary wrote (the row's index, the storage
\* outcome, whether its entities equalled their latest snapshots) and the
\* contexts that were inside their boundary at that time.
NoUnit ==
    [pc |-> "start", ign |-> FALSE, outside |-> NoComment, message |-> NoComment,
     saved |-> {}, hostlog |-> <<>>, wrote |-> 0, po |-> "none", dup |-> FALSE,
     others |-> {}]

NoUnits ==
    /\ locals = [t \in Contexts |-> Cleared]
    /\ units = [t \in Contexts |-> NoUnit]

\* Requests are served after setup: the registry is not touched by them.
Init ==
    /\ ViewInit
    /\ reg = EmptyRegistry(Chain)
    /\ call = NoCall
    /\ NoUnits

\* What a step of the request did and what it left: the rows, the
\* boundary's touched set, depth and comment, the exception in flight.
EvAfter(op) ==
    [op |-> op, ents |-> db'.cur.ents, nrevs |-> Len(db'.cur.revs),
     touched |-> ctx'.touched, depth |-> ctx'.depth, comment |-> ctx'.comment,
     exc |-> exc']

Log(op) == events' = Append(events, EvAfter(op))

\* ------------------------------------------------------- create_revision

\* A mutant of create_revision_enter: the admin's duplicate policy is not
\* passed on.
create_revision_enter_no_policy(c, u, ign) == set_user(start(c), u)

\* Entering "with self.create_revision(request)".
create_revision_enter(c, u, ign) ==
    set_ignore_duplicates(set_user(start(c), u), ign)

\* log_addition and log_change: the comment is set only on an active
\* boundary.
AdditionMessage(change_message) ==
    IF change_message = NoComment THEN Comment("Initial version.", 0)
    ELSE change_message

log_addition(c, change_message) ==
    IF is_active(c) THEN set_comment(c, AdditionMessage(change_message)) ELSE c

\* A mutant of log_change: without an active boundary it opens one to
\* hold the comment.
log_change_opens(c, message) ==
    set_comment(IF is_active(c) THEN c ELSE start(c), message)

log_change(c, message) ==
    IF is_active(c) THEN set_comment(c, message) ELSE c

\* --------------------------------------------------------------- requests

\* The versions of the root entity: revision_view and recover_view look
\* the version up by the root's object id.
RootVersions(cur) == {i \in 1..Len(cur.revs) : Root \in DOMAIN cur.revs[i].snaps}

ViewEntry(view) == IF view = "revisionform_view" THEN "rf_atomic" ELSE "scope_enter"

AfterView(r) == IF r.nest > 0 THEN "host_exit" ELSE "done"

\* The host calls a view, possibly inside its own transaction (with writes
\* of its own pending) and inside revision boundaries it opened.  Only
\* revisionform_view reads the request's method; an edit is a POST.
Request ==
    /\ pc = "idle"
    /\ nreq < MaxRequests
    /\ \E view \in Views, u \in Users, ambient \in BOOLEAN, nest \in 0..MaxNest :
        \E method \in IF view = "revisionform_view" THEN Methods ELSE {"POST"} :
        \E version \in IF view = "revisionform_view"
                        THEN RootVersions(db.cur) ELSE {0} :
            LET d1 == IF ambient
                      THEN Write(AtomicEnter(db), [db.cur EXCEPT !.w = TRUE])
                      ELSE db
            IN /\ req' = [view |-> view, method |-> method, user |-> u,
                          version |-> version, ambient |-> ambient,
                          nest |-> nest]
               /\ db' = d1
               /\ pre' = d1
               /\ pc' = IF nest > 0 THEN "host_enter" ELSE ViewEntry(view)
    /\ nreq' = nreq + 1
    /\ response' = NoResponse
    /\ exc' = NoExc
    /\ result' = NoResult
    /\ events' = <<>>
    /\ UNCHANGED <<locals, units, reg, call, ctx, ignore_duplicate_revisions>>

\* The host's enclosing boundaries, entered before the view is called.
HostEnter ==
    /\ pc = "host_enter"
    /\ ctx' = create_revision_enter(ctx, req.user, ignore_duplicate_revisions)
    /\ pc' = IF ctx'.depth = req.nest THEN ViewEntry(req.view) ELSE pc
    /\ UNCHANGED <<locals, units, reg, call, db, ignore_duplicate_revisions, req, pre, response, exc,
                   result, events, nreq>>

\* ----------------------------------------------------- revisionform_view

\* What a form workflow saves: nothing, the root, or the root and its
\* inline; a saved entity takes the posted value.
SaveSets == {{}, {Root}, {Root, Sub}}

Saved(cur, saves, v) ==
    [cur EXCEPT !.ents = [e \in Entities |-> IF e \in saves THEN v ELSE @[e]]]

RevertedComment(version) == Comment("Reverted to previous version, saved on", version)

\* "with transaction.atomic():"
RF_AtomicEnter ==
    /\ pc = "rf_atomic"
    /\ db' = AtomicEnter(db)
    /\ pc' = "rf_revert"
    /\ UNCHANGED <<locals, units, reg, call, ctx, ignore_duplicate_revisions, req, pre, response, exc,
                   result, nreq>>
    /\ Log("atomic_enter")

\* "version.revision.revert(delete=True)": it reverts, or it fails (with
\* RevertError or with another error), possibly after some of its writes.
RF_Revert ==
    /\ pc = "rf_revert"
    /\ LET rev == db.cur.revs[req.version]
           done == Write(db, revert(db.cur, rev))
       IN \/ /\ db' = done
             /\ ctx' = touch(ctx, RevertSaves(rev))
             /\ exc' = exc
             /\ pc' = "scope_enter"
          \/ /\ \E e \in {RevertError, OtherError}, wrote \in BOOLEAN :
                    /\ exc' = e
                    /\ db' = IF wrote THEN done ELSE db
                    /\ ctx' = IF wrote THEN touch(ctx, RevertSaves(rev)) ELSE ctx
             /\ pc' = "rf_atomic_exit"
    /\ UNCHANGED <<locals, units, reg, call, ignore_duplicate_revisions, req, pre, response, result, nreq>>
    /\ Log(IF exc' = NoExc THEN "revert" ELSE "revert_failed")

\* "with self.create_revision(request):", in every view.
CreateRevisionEnter ==
    /\ pc = "scope_enter"
    /\ ctx' = create_revision_enter(ctx, req.user, ignore_duplicate_revisions)
    /\ pc' = "unit"
    /\ UNCHANGED <<locals, units, reg, call, db, ignore_duplicate_revisions, req, pre, response, exc,
                   result, nreq>>
    /\ Log("scope_enter")

\* "response = self.changeform_view(...)": the host's change workflow.  It
\* returns a response, having saved what it saved and logged the change,
\* or it raises.
RF_Changeform ==
    /\ pc = "unit"
    /\ req.view = "revisionform_view"
    /\ \E saves \in SaveSets, v \in 1..MaxVal :
        \/ /\ \E status \in Statuses :
                  response' = [NoResponse EXCEPT !.status = status]
           /\ db' = Write(db, Saved(db.cur, saves, v))
           /\ ctx' = IF saves = {} THEN ctx
                     ELSE log_change(touch(ctx, saves), Comment("Changed.", 0))
           /\ exc' = exc
           /\ pc' = "rf_decide"
        \/ /\ \E e \in {RevertError, OtherError} : exc' = e
           /\ db' = db
           /\ ctx' = touch(ctx, saves)
           /\ response' = response
           /\ pc' = "scope_exit"
    /\ UNCHANGED <<locals, units, reg, call, ignore_duplicate_revisions, req, pre, result, nreq>>
    /\ Log("changeform")

\* A mutant of RF_Decide: the preview branch does not raise.
RF_DecideNoRaise ==
    /\ pc = "rf_decide"
    /\ IF req.method = "POST" /\ response.status = 302
       THEN /\ ctx' = set_comment(ctx, RevertedComment(req.version))
            /\ response' = response
       ELSE /\ response' = [response EXCEPT !.template = "revision_form",
                                            !.rendered = TRUE,
                                            !.artifact = db.cur.ents]
            /\ ctx' = ctx
    /\ exc' = exc
    /\ pc' = "scope_exit"
    /\ UNCHANGED <<locals, units, reg, call, db, ignore_duplicate_revisions, req, pre, result, nreq>>
    /\ IF response'.rendered
       THEN events' = Append(events, EvAfter("render"))
       ELSE Log("set_comment")

\* A mutant of RF_Decide: the raise is outside the else branch.
RF_DecideAlwaysRaise ==
    /\ pc = "rf_decide"
    /\ IF req.method = "POST" /\ response.status = 302
       THEN /\ ctx' = set_comment(ctx, RevertedComment(req.version))
            /\ response' = response
       ELSE /\ response' = [response EXCEPT !.template = "revision_form",
                                            !.rendered = TRUE,
                                            !.artifact = db.cur.ents]
            /\ ctx' = ctx
    /\ exc' = RollBackRevisionView
    /\ pc' = "scope_exit"
    /\ UNCHANGED <<locals, units, reg, call, db, ignore_duplicate_revisions, req, pre, result, nreq>>
    /\ IF response'.rendered
       THEN events' = events \o <<[EvAfter("render") EXCEPT !.exc = NoExc],
                                  EvAfter("raise")>>
       ELSE events' = events \o <<[EvAfter("set_comment") EXCEPT !.exc = NoExc],
                                  EvAfter("raise")>>

\* A mutant of RF_Decide: the exception is raised before the response is
\* rendered.
RF_DecideRaiseFirst ==
    /\ pc = "rf_decide"
    /\ IF req.method = "POST" /\ response.status = 302
       THEN /\ ctx' = set_comment(ctx, RevertedComment(req.version))
            /\ response' = response
            /\ exc' = exc
       ELSE /\ response' = [response EXCEPT !.template = "revision_form"]
            /\ ctx' = ctx
            /\ exc' = RollBackRevisionView
    /\ pc' = "scope_exit"
    /\ UNCHANGED <<locals, units, reg, call, db, ignore_duplicate_revisions, req, pre, result, nreq>>
    /\ IF exc' = RollBackRevisionView THEN Log("raise") ELSE Log("set_comment")

\* A mutant of RF_Decide: the commit branch leaves the comment as the
\* change workflow set it.
RF_DecideKeepsComment ==
    /\ pc = "rf_decide"
    /\ IF req.method = "POST" /\ response.status = 302
       THEN /\ ctx' = ctx
            /\ response' = response
            /\ exc' = exc
       ELSE /\ response' = [response EXCEPT !.template = "revision_form",
                                            !.rendered = TRUE,
                                            !.artifact = db.cur.ents]
            /\ ctx' = ctx
            /\ exc' = RollBackRevisionView
    /\ pc' = "scope_exit"
    /\ UNCHANGED <<locals, units, reg, call, db, ignore_duplicate_revisions, req, pre, result, nreq>>
    /\ IF response'.rendered
       THEN events' = events \o <<[EvAfter("render") EXCEPT !.exc = NoExc],
                                  EvAfter("raise")>>
       ELSE Log("set_comment")

\* A mutant of KeepChanges: every POST keeps the changes.
KeepChangesAnyPost(r, resp) == r.method = "POST"

\* "if request.method == "POST" and response.status_code == 302".
KeepChanges(r, resp) == r.method = "POST" /\ resp.status = 302

\* The decision: a POST answered by a redirect keeps the changes and sets
\* the comment; anything else renders the response and raises
\* RollBackRevisionView.
RF_Decide ==
    /\ pc = "rf_decide"
    /\ IF KeepChanges(req, response)
       THEN /\ ctx' = set_comment(ctx, RevertedComment(req.version))
            /\ response' = response
            /\ exc' = exc
       ELSE /\ response' = [response EXCEPT !.template = "revision_form",
                                            !.rendered = TRUE,
                                            !.artifact = db.cur.ents]
            /\ ctx' = ctx
            /\ exc' = RollBackRevisionView
    /\ pc' = "scope_exit"
    /\ UNCHANGED <<locals, units, reg, call, db, ignore_duplicate_revisions, req, pre, result, nreq>>
    /\ IF response'.rendered
       THEN events' = events \o <<[EvAfter("render") EXCEPT !.exc = NoExc],
                                  EvAfter("raise")>>
       ELSE Log("set_comment")

\* A mutant of CreateRevisionExit: the boundary is left only when the
\* block ends normally; an exception skips the exit.
CreateRevisionExitLeak ==
    /\ pc = "scope_exit"
    /\ \E po \in PersistOutcomes :
        LET r == IF exc = NoExc THEN end(ctx, db, exc, po)
                 ELSE [ctx |-> ctx, db |-> db, exc |-> exc]
        IN /\ ctx' = r.ctx
           /\ db' = r.db
           /\ exc' = r.exc
    /\ pc' = IF req.view = "revisionform_view" THEN "rf_atomic_exit" ELSE "return"
    /\ UNCHANGED <<locals, units, reg, call, ignore_duplicate_revisions, req, pre, response, result, nreq>>
    /\ Log("scope_exit")

\* Leaving "with self.create_revision(request):", normally or with an
\* exception in flight.
CreateRevisionExit ==
    /\ pc = "scope_exit"
    /\ \E po \in PersistOutcomes :
        LET r == end(ctx, db, exc, po)
        IN /\ ctx' = r.ctx
           /\ db' = r.db
           /\ exc' = r.exc
    /\ pc' = IF req.view = "revisionform_view" THEN "rf_atomic_exit" ELSE "return"
    /\ UNCHANGED <<locals, units, reg, call, ignore_duplicate_revisions, req, pre, response, result, nreq>>
    /\ Log("scope_exit")

\* A mutant of RF_AtomicExit: the block takes no savepoint of its own, so
\* an exception rolls back to the start of the enclosing transaction.
RF_AtomicExitNoSavepoint ==
    /\ pc = "rf_atomic_exit"
    /\ db' = IF exc # NoExc
             THEN [db EXCEPT !.cur = db.sp[1], !.sp = Front(@)]
             ELSE AtomicExit(db, FALSE)
    /\ pc' = "rf_except"
    /\ UNCHANGED <<locals, units, reg, call, ctx, ignore_duplicate_revisions, req, pre, response, exc,
                   result, nreq>>
    /\ Log("atomic_exit")

\* A mutant of RF_AtomicExit: the block is released without a rollback
\* even when an exception leaves it.
RF_AtomicExitAlwaysCommit ==
    /\ pc = "rf_atomic_exit"
    /\ db' = AtomicExit(db, FALSE)
    /\ pc' = "rf_except"
    /\ UNCHANGED <<locals, units, reg, call, ctx, ignore_duplicate_revisions, req, pre, response, exc,
                   result, nreq>>
    /\ Log("atomic_exit")

\* Leaving "with transaction.atomic():".
RF_AtomicExit ==
    /\ pc = "rf_atomic_exit"
    /\ db' = AtomicExit(db, exc # NoExc)
    /\ pc' = "rf_except"
    /\ UNCHANGED <<locals, units, reg, call, ctx, ignore_duplicate_revisions, req, pre, response, exc,
                   result, nreq>>
    /\ Log("atomic_exit")

Redirect == [NoResponse EXCEPT !.status = 302, !.template = "changelist"]

\* The outcome of the except clauses for an exception: what the caller
\* gets and what is still in flight.
Caught(e, resp) ==
    [result |-> [kind |-> "response", exc |-> NoExc, response |-> resp],
     exc |-> NoExc]

Conflict(e) ==
    [result |-> [kind |-> "redirect", exc |-> e, response |-> Redirect],
     exc |-> NoExc]

Propagated(e) ==
    [result |-> [kind |-> "error", exc |-> e, response |-> NoResponse],
     exc |-> e]

\* A mutant of ExceptClauses: there is no "except RevertError" clause.
ExceptClausesNoRevertError(e, resp) ==
    IF e \in {RollBackRevisionView, NoExc} THEN Caught(e, resp) ELSE Propagated(e)

\* A mutant of ExceptClauses: there is no "except RollBackRevisionView".
ExceptClausesNoRollBack(e, resp) ==
    CASE e = RevertError -> Conflict(e)
      [] e = NoExc -> Caught(e, resp)
      [] OTHER -> Propagated(e)

\* A mutant of ExceptClauses: the first clause is "except Exception".
ExceptClausesCatchAll(e, resp) ==
    IF e = NoExc THEN Caught(e, resp) ELSE Conflict(e)

\* "except RevertError ... except RollBackRevisionView: pass" and
\* "return response".
ExceptClauses(e, resp) ==
    CASE e = RevertError -> Conflict(e)
      [] e = RollBackRevisionView -> Caught(e, resp)
      [] e = NoExc -> Caught(e, resp)
      [] OTHER -> Propagated(e)

\* The except clauses and "return response".
RF_Except ==
    /\ pc = "rf_except"
    /\ result' = ExceptClauses(exc, response).result
    /\ exc' = ExceptClauses(exc, response).exc
    /\ pc' = AfterView(req)
    /\ UNCHANGED <<locals, units, reg, call, db, ctx, ignore_duplicate_revisions, req, pre, response, nreq>>
    /\ Log("return")

\* -------------------------------------- add_view, change_view, changelist_view

\* What the wrapped view logs for what it saved.
Logged(c, view) ==
    IF view = "add_view"
    THEN log_addition(c, Comment("Initial version.", 0))
    ELSE log_change(c, Comment("Changed.", 0))

\* What the wrapped view can save: add_view creates the root, the other
\* views change an existing one.
CanSave(view, cur, saves) ==
    saves = {} \/ ((view = "add_view") <=> (cur.ents[Root] = 0))

\* "return super(VersionAdmin, self).<view>(...)": the host's view saves
\* and returns a response, or raises and its own writes are undone.
SuperView ==
    /\ pc = "unit"
    /\ req.view \in OrdinaryViews
    /\ \E saves \in {x \in SaveSets : CanSave(req.view, db.cur, x)}, v \in 1..MaxVal :
        \/ /\ \E status \in Statuses :
                  response' = [NoResponse EXCEPT !.status = status]
           /\ db' = Write(db, Saved(db.cur, saves, v))
           /\ ctx' = IF saves = {} THEN ctx ELSE Logged(touch(ctx, saves), req.view)
           /\ exc' = exc
        \/ /\ exc' = OtherError
           /\ db' = db
           /\ ctx' = touch(ctx, saves)
           /\ response' = response
    /\ pc' = "scope_exit"
    /\ UNCHANGED <<locals, units, reg, call, ignore_duplicate_revisions, req, pre, result, nreq>>
    /\ Log("super_view")

\* The view returns its response, or the exception leaves it.
Return ==
    /\ pc = "return"
    /\ result' = IF exc = NoExc
                 THEN [kind |-> "response", exc |-> NoExc, response |-> response]
                 ELSE [kind |-> "error", exc |-> exc, response |-> NoResponse]
    /\ pc' = AfterView(req)
    /\ UNCHANGED <<locals, units, reg, call, db, ctx, ignore_duplicate_revisions, req, pre, response,
                   exc, nreq>>
    /\ Log("return")

\* The host leaves its enclosing boundaries, the view's exception (if any)
\* passing through them.
HostExit ==
    /\ pc = "host_exit"
    /\ \E po \in PersistOutcomes :
        LET r == end(ctx, db, exc, po)
        IN /\ ctx' = r.ctx
           /\ db' = r.db
           /\ exc' = r.exc
           /\ result' = IF r.exc # exc
                        THEN [kind |-> "error", exc |-> r.exc,
                              response |-> NoResponse]
                        ELSE result
    /\ pc' = IF ctx'.depth = 0 THEN "done" ELSE pc
    /\ UNCHANGED <<locals, units, reg, call, ignore_duplicate_revisions, req, pre, response, nreq>>
    /\ Log("host_exit")

\* The host ends the request: its own transaction commits, or rolls back
\* when an error came out.
Finish ==
    /\ pc = "done"
    /\ LET d1 == IF req.ambient THEN AtomicExit(db, result.kind = "error") ELSE db
       IN db' = [d1 EXCEPT !.cur.w = FALSE, !.durable.w = FALSE]
    /\ pc' = "idle"
    /\ req' = NoRequest
    /\ response' = NoResponse
    /\ exc' = NoExc
    /\ result' = NoResult
    /\ events' = <<>>
    /\ pre' = db'
    /\ UNCHANGED <<locals, units, reg, call, ctx, ignore_duplicate_revisions, nreq>>

Next ==
    \/ Request
    \/ HostEnter
    \/ RF_AtomicEnter
    \/ RF_Revert
    \/ CreateRevisionEnter
    \/ RF_Changeform
    \/ RF_Decide
    \/ CreateRevisionExit
    \/ RF_AtomicExit
    \/ RF_Except
    \/ SuperView
    \/ Return
    \/ HostExit
    \/ Finish

Spec == Init /\ [][Next]_vars

\* ------------------------------------------------------- registration runs

\* Setup: no request is being served.
InitReg ==
    /\ LET c0 == [ents |-> [e \in Entities |-> 1],
                  revs |-> <<RevisionOf([e \in Entities |-> 1], "Initial version.")>>,
                  w |-> FALSE]
       IN db = [cur |-> c0, durable |-> c0, sp |-> <<>>]
    /\ ctx = Cleared
    /\ ignore_duplicate_revisions = FALSE
    /\ pc = "setup"
    /\ req = NoRequest
    /\ pre = db
    /\ response = NoResponse
    /\ exc = NoExc
    /\ result = NoResult
    /\ events = <<>>
    /\ nreq = 0
    /\ reg \in {EmptyRegistry(h) : h \in Hierarchies}
    /\ call = NoCall
    /\ NoUnits

\* A call of _reversion_autoregister(model, follow), the follow fields
\* drawn from F.
Autoregister(F) ==
    /\ pc = "setup"
    /\ \E model \in Types, follow \in F :
        /\ reg' = reversion_autoregister(reg, model, follow)
        /\ call' = [op |-> "autoregister", model |-> model, follow |-> follow,
                    inlines |-> <<>>, before |-> reg]
    /\ UNCHANGED viewVars

\* The host registers a type itself, with the follow fields it chooses;
\* the type's supertypes are left as they are.
RegisterDirect ==
    /\ pc = "setup"
    /\ \E model \in Types, follow \in ExtraFollows :
        /\ ~is_registered(reg, model)
        /\ reg' = register(reg, model, follow)
        /\ call' = [op |-> "register", model |-> model, follow |-> follow,
                    inlines |-> <<>>, before |-> reg]
    /\ UNCHANGED viewVars

\* The inlines an admin class declares.
InlineConfigs ==
    {<<>>,
     <<Inline("fk", "D", None)>>,
     <<Inline("fk", "D", None), Inline("fk", "D", "owner")>>,
     <<Inline("fk", "D", "editor")>>,
     <<Inline("generic", "D", None), Inline("fk", "D", None)>>,
     <<Inline("fk", "A", None)>>,
     <<Inline("fk", "B", None)>>,
     <<Inline("other", "D", None)>>}

\* An admin for a model is constructed: __init__ raises when the database
\* has no savepoints, and registers what is not registered otherwise.
AdminInit ==
    /\ pc = "setup"
    /\ \E model \in Types, inlines \in InlineConfigs, uses_savepoints \in BOOLEAN :
        /\ reg' = IF uses_savepoints THEN admin_init(reg, model, inlines) ELSE reg
        /\ call' = [op |-> IF uses_savepoints THEN "init" ELSE "ImproperlyConfigured",
                    model |-> model, follow |-> <<>>,
                    inlines |-> IF uses_savepoints THEN inlines ELSE <<>>,
                    before |-> reg]
    /\ UNCHANGED viewVars

NextReg ==
    \/ Autoregister(ExtraFollows)
    \/ RegisterDirect

SpecReg == InitReg /\ [][NextReg]_vars

\* Setup by admin constructions and auto-registration calls.
NextAdmin ==
    \/ AdminInit
    \/ Autoregister({<<>>, <<"a_ptr">>})

SpecAdmin == InitReg /\ [][NextAdmin]_vars

\* ------------------------------------------------------- concurrent units
\* Two execution contexts each serve a request through an ordinary view of
\* an admin, against the same database; a step of one can fall between any
\* two steps of the other.

frame == <<ctx, ignore_duplicate_revisions, pc, req, pre, response, exc,
           result, events, nreq, reg, call>>

InitCtx ==
    /\ LET c0 == [ents |-> [e \in Entities |-> 1],
                  revs |-> <<RevisionOf([e \in Entities |-> 1], "Initial version.")>>,
                  w |-> FALSE]
       IN db = [cur |-> c0, durable |-> c0, sp |-> <<>>]
    /\ ctx = Cleared
    /\ ignore_duplicate_revisions = FALSE
    /\ pc = "concurrent"
    /\ req = NoRequest
    /\ pre = db
    /\ response = NoResponse
    /\ exc = NoExc
    /\ result = NoResult
    /\ events = <<>>
    /\ nreq = 0
    /\ reg = EmptyRegistry(Chain)
    /\ call = NoCall
    /\ locals = [t \in Contexts |-> Cleared]
    /\ \E ign \in [Contexts -> BOOLEAN] :
            units = [t \in Contexts |-> [NoUnit EXCEPT !.ign = ign[t]]]

LogKinds == {"addition", "change"}

\* What a log call does to a boundary, and the message the host logs.
LogCall(c, kind, m) ==
    IF kind = "addition" THEN log_addition(c, m) ELSE log_change(c, m)

LogMessage(kind, m) == IF kind = "addition" THEN AdditionMessage(m) ELSE m

\* The host calls log_addition (without a message) or log_change before
\* the unit's boundary is opened; super()'s own logging follows.
U_LogOutside(t) ==
    /\ units[t].pc = "start"
    /\ \E kind \in LogKinds :
        LET m == IF kind = "addition" THEN NoComment ELSE Comment("Changed.", 0)
            slot == revision_context_manager(t)
        IN /\ locals' = [locals EXCEPT ![slot] = LogCall(@, kind, m)]
           /\ units' = [units EXCEPT ![t].pc = "logged",
                                     ![t].outside = LogMessage(kind, m),
                                     ![t].hostlog = Append(@, LogMessage(kind, m))]
    /\ UNCHANGED <<db, frame>>

\* "with self.create_revision(request):" in the unit's context.
U_Enter(t) ==
    /\ units[t].pc \in {"start", "logged"}
    /\ LET slot == revision_context_manager(t)
       IN locals' = [locals EXCEPT ![slot] =
                        create_revision_enter(@, Actor[t], units[t].ign)]
    /\ units' = [units EXCEPT ![t].pc = "in"]
    /\ UNCHANGED <<db, frame>>

\* The wrapped view saves and logs what it did.
U_Save(t) ==
    /\ units[t].pc = "in"
    /\ \E saves \in SaveSets \ {{}}, v \in {1, MaxVal}, kind \in LogKinds :
        LET m == IF kind = "addition" THEN NoComment ELSE Comment("Changed.", 0)
            slot == revision_context_manager(t)
        IN /\ db' = Write(db, Saved(db.cur, saves, v))
           /\ locals' = [locals EXCEPT ![slot] = LogCall(touch(@, saves), kind, m)]
           /\ units' = [units EXCEPT ![t].pc = "saved",
                                     ![t].saved = saves,
                                     ![t].message = LogMessage(kind, m),
                                     ![t].hostlog = Append(@, LogMessage(kind, m))]
    /\ UNCHANGED frame

\* Leaving the unit's "with self.create_revision(request):".
U_Exit(t) ==
    /\ units[t].pc = "saved"
    /\ \E po \in PersistOutcomes :
        LET slot == revision_context_manager(t)
            r == end(locals[slot], db, NoExc, po)
        IN /\ locals' = [locals EXCEPT ![slot] = r.ctx]
           /\ db' = r.db
           /\ units' = [units EXCEPT
                ![t].pc = "out",
                ![t].po = po,
                ![t].dup = \A e \in units[t].saved :
                                /\ LatestWith(db.cur.revs, e) # 0
                                /\ db.cur.revs[LatestWith(db.cur.revs, e)].snaps[e]
                                        = db.cur.ents[e],
                ![t].others = {u \in Contexts \ {t} :
                                    units[u].pc \in {"in", "saved"}},
                ![t].wrote = IF Len(r.db.cur.revs) > Len(db.cur.revs)
                             THEN Len(r.db.cur.revs) ELSE 0]
    /\ UNCHANGED frame

NextCtx ==
    \E t \in Contexts :
        \/ U_LogOutside(t)
        \/ U_Enter(t)
        \/ U_Save(t)
        \/ U_Exit(t)

SpecCtx == InitCtx /\ [][NextCtx]_vars

\* ------------------------------------------------------------ type invariant

TypeOK ==
    /\ pc \in {"idle", "host_enter", "rf_atomic", "rf_revert", "scope_enter",
               "unit", "rf_decide", "scope_exit", "rf_atomic_exit",
               "rf_except", "return", "host_exit", "done"}
    /\ ctx.depth \in 0..(MaxNest + 1)
    /\ Len(db.sp) \in 0..2
    /\ nreq \in 0..MaxRequests

\* ------------------------------------------------- reading a request's trace

IsRF == req.view = "revisionform_view"

Did(op) == \E i \in 1..Len(events) : events[i].op = op

\* The first event of the request with this name.
Ev(op) == events[CHOOSE i \in 1..Len(events) :
                    /\ events[i].op = op
                    /\ \A j \in 1..(i - 1) : events[j].op # op]

\* The view has just returned to its caller (or raised into it).
JustReturned == events # <<>> /\ Last(events).op = "return"

\* Every entity touched while a boundary was active during the request.
TouchedAll == UNION {events[i].touched : i \in 1..Len(events)}

\* The steps of the request that wrote a revision row.
PersistSteps ==
    {i \in 1..Len(events) :
        events[i].nrevs > (IF i = 1 THEN Len(pre.cur.revs) ELSE events[i - 1].nrevs)}

\* The revision rows the database holds beyond those before the call.
NewRows(revs, before) == SubSeq(revs, Len(before) + 1, Len(revs))

KeepsRows(revs, before) ==
    /\ Len(revs) >= Len(before)
    /\ SubSeq(revs, 1, Len(before)) = before

\* The call took the preview branch: it rendered the response.
PreviewReturned == IsRF /\ JustReturned /\ response.rendered

\* The call took the commit branch and returned its response.
CommitReturned ==
    IsRF /\ JustReturned /\ Did("set_comment") /\ result.kind = "response"

\* An entity's state equals its latest snapshot among revs.
SameAsLatest(revs, ents, e) ==
    /\ LatestWith(revs, e) # 0
    /\ revs[LatestWith(revs, e)].snaps[e] = ents[e]

\* ------------------------------------------------------------------ claims

\* C1. Atomicity of abort: when revisionform_view returns on the preview
\* path, the rows of every entity are what they were before the call, in
\* the connection's view and on disk, and no revision row was added.
C1_AbortAtomicity ==
    PreviewReturned =>
        /\ result.kind = "response"
        /\ db.cur.ents = pre.cur.ents
        /\ db.cur.revs = pre.cur.revs
        /\ db.durable.ents = pre.durable.ents
        /\ db.durable.revs = pre.durable.revs

\* A preview whose revert and change workflow had changed rows and touched
\* entities inside the boundary.
C1_Witness ==
    /\ PreviewReturned
    /\ Did("raise")
    /\ Ev("changeform").ents # pre.cur.ents
    /\ Ev("changeform").touched # {}

C4_RevertConflict ==
    (IsRF /\ JustReturned /\ Did("revert_failed")
          /\ Ev("revert_failed").exc = RevertError) =>
        /\ result.kind = "redirect"
        /\ result.response = Redirect
        /\ result.exc = RevertError
        /\ ~Did("scope_enter")
        /\ ~Did("changeform")
        /\ ctx.depth = req.nest
        /\ db = pre

\* A conflict signalled after revert had already written rows.
C4_Witness ==
    /\ IsRF /\ JustReturned /\ Did("revert_failed")
    /\ Ev("revert_failed").exc = RevertError
    /\ Ev("revert_failed").ents # pre.cur.ents
    /\ result.kind = "redirect"

\* The error raised by the mutation step or by the render step, if any.
StepError ==
    IF Did("revert_failed") THEN Ev("revert_failed").exc
    ELSE IF Did("changeform") THEN Ev("changeform").exc
    ELSE NoExc

\* C5 as stated. Every error of the mutation or render step other than the
\* deliberate abort reaches the caller unchanged after the rollback,
\* RevertError included.
C5_AsClaimed ==
    (IsRF /\ JustReturned /\ StepError # NoExc) =>
        /\ result.kind = "error"
        /\ result.exc = StepError
        /\ db = pre

\* C5 as amended. Every error of the mutation or render step other than
\* RevertError and the deliberate abort reaches the caller unchanged after
\* the rollback; a RevertError, from either step, is caught by the view
\* after the rollback and answered with the conflict redirect.
C5_ErrorPropagation ==
    (IsRF /\ JustReturned /\ StepError # NoExc) =>
        /\ db = pre
        /\ StepError # RevertError =>
                (result.kind = "error" /\ result.exc = StepError)
        /\ StepError = RevertError =>
                (result.kind = "redirect" /\ result.response = Redirect)

\* The render step failed after the revert had changed rows, and the error
\* came out of the view.
C5_Witness ==
    /\ IsRF /\ JustReturned
    /\ Did("changeform")
    /\ Ev("changeform").exc = OtherError
    /\ Ev("revert").ents # pre.cur.ents
    /\ result.kind = "error"

\* C6. RollBackRevisionView never escapes revisionform_view: it is raised
\* only with the response assigned, it is caught, and the call returns
\* that rendered response.
C6_AbortSignalCaught ==
    /\ result.exc # RollBackRevisionView
    /\ pc \in {"host_exit", "done", "idle"} => exc # RollBackRevisionView
    /\ exc = RollBackRevisionView =>
            (response.status \in Statuses /\ response.rendered)
    /\ (IsRF /\ JustReturned /\ Did("raise")) =>
            /\ result.kind = "response"
            /\ result.response = response
            /\ result.response.rendered
            /\ result.response.status \in Statuses

\* A call that raised the signal and returned.
C6_Witness ==
    /\ IsRF /\ JustReturned /\ Did("raise")
    /\ result.kind = "response"

\* C7. With an ambient transaction open and its writes pending, the call
\* neither commits nor rolls back that transaction; on the preview path, on
\* a conflict and on a propagated error the connection is back at the
\* savepoint taken on entry, the ambient writes still pending.
C7_SavepointConfinement ==
    (IsRF /\ req.ambient /\ JustReturned) =>
        /\ db.sp = pre.sp
        /\ Len(db.sp) = 1
        /\ db.durable = pre.durable
        /\ db.cur.w /\ ~db.durable.w
        /\ ~(Did("set_comment") /\ result.kind = "response") => db.cur = pre.cur

\* A preview inside an ambient transaction, after rows had changed.
C7_Witness ==
    /\ IsRF /\ req.ambient /\ JustReturned
    /\ Did("raise")
    /\ Ev("changeform").ents # pre.cur.ents

\* C8. Duplicate suppression: with ignore_duplicate_revisions set, a commit
\* in which every touched entity ends identical to its latest snapshot
\* writes no revision row, and the transaction still commits.
C8_DuplicateSuppression ==
    ( /\ IsRF /\ pc = "done"
      /\ Did("set_comment")
      /\ \A i \in 1..Len(events) : events[i].exc = NoExc
      /\ ignore_duplicate_revisions
      /\ \A e \in TouchedAll :
            SameAsLatest(pre.cur.revs, Ev("set_comment").ents, e) ) =>
        /\ db.cur.revs = pre.cur.revs
        /\ result.kind = "response"
        /\ db.cur.ents = Ev("set_comment").ents
        /\ ~req.ambient => db.durable = db.cur

\* A suppressed commit: entities were touched, the revert changed rows, the
\* rows are committed.
C8_Witness ==
    /\ IsRF /\ pc = "done"
    /\ Did("set_comment")
    /\ ignore_duplicate_revisions
    /\ TouchedAll # {}
    /\ \A e \in TouchedAll :
            SameAsLatest(pre.cur.revs, Ev("set_comment").ents, e)
    /\ db.durable.ents # pre.durable.ents
    /\ db.durable.revs = pre.durable.revs

\* C9. Ordinary edits (suppression off, no ambient transaction): an edit
\* that raised or touched nothing leaves no revision row, and an edit whose
\* data is committed has exactly one new revision row, holding a snapshot
\* of every touched entity.
C9_EditHasItsRevision ==
    ( /\ req.view \in OrdinaryViews /\ pc = "done"
      /\ ~req.ambient /\ ~ignore_duplicate_revisions ) =>
        LET new == NewRows(db.durable.revs, pre.durable.revs)
        IN /\ (Ev("super_view").exc # NoExc \/ TouchedAll = {}) => Len(new) = 0
           /\ db.durable.ents # pre.durable.ents =>
                /\ Len(new) = 1
                /\ DOMAIN new[1].snaps = TouchedAll
                /\ \A e \in TouchedAll : new[1].snaps[e] = db.durable.ents[e]


\* The types registered by the last call, in the order of their register
\* calls.
Registered == SubSeq(reg.order, Len(call.before.order) + 1, Len(reg.order))

\* The last call was autoregister(c) on a chain c extends b extends a, none
\* of them registered before.
ChainCall(a, b, c) ==
    /\ call.op = "autoregister"
    /\ call.model = c
    /\ Len(reg.hier[c]) = 1 /\ reg.hier[c][1].cls = b
    /\ Len(reg.hier[b]) = 1 /\ reg.hier[b][1].cls = a
    /\ reg.hier[a] = <<>>
    /\ {a, b, c} \cap call.before.registered = {}

Occurs(f, s) == \E i \in 1..Len(s) : s[i] = f

\* C10 as stated. Supertype ordering: autoregister(C) registers A, then B,
\* then C, and C's follow fields include the link to A and the link to B,
\* in that order.
C10_AsClaimed ==
    \A a, b, c \in Types :
        ChainCall(a, b, c) =>
            /\ Registered = <<a, b, c>>
            /\ \E i, j \in 1..Len(reg.follow[c]) :
                    /\ i < j
                    /\ reg.follow[c][i] = reg.hier[b][1].field
                    /\ reg.follow[c][j] = reg.hier[c][1].field

\* C10 as amended. autoregister(C) registers A, then B, then C; the follow
\* fields registered for C are the caller's follow fields and then the
\* parent link to B, its direct supertype; the parent link to A is
\* registered for B, not for C (unless the caller passed it).
C10_SupertypeOrdering ==
    \A a, b, c \in Types :
        ChainCall(a, b, c) =>
            /\ Registered = <<a, b, c>>
            /\ reg.follow[c] = call.follow \o <<reg.hier[c][1].field>>
            /\ reg.follow[b] = <<reg.hier[b][1].field>>
            /\ reg.follow[a] = <<>>
            /\ Occurs(reg.hier[b][1].field, reg.follow[c])
                    <=> Occurs(reg.hier[b][1].field, call.follow)

\* autoregister("C") ran on the chain with nothing registered before.
C10_Witness ==
    /\ ChainCall("A", "B", "C")
    /\ call.follow = <<>>
    /\ reg.registered = {"A", "B", "C"}

\* C11. Registration idempotence: a call of _reversion_autoregister leaves
\* its type registered, and a call on a type that is already registered,
\* with the same or with other follow fields, leaves the whole registry as
\* it was: no type is registered by it, not even an unregistered supertype,
\* and no follow fields change.
C11_RegistrationIdempotence ==
    call.op = "autoregister" =>
        /\ is_registered(reg, call.model)
        /\ is_registered(call.before, call.model) =>
                /\ reg = call.before
                /\ Registered = <<>>

\* A second call on a registered type whose supertype is not registered,
\* with follow fields other than the registered ones.
C11_Witness ==
    /\ call.op = "autoregister"
    /\ is_registered(call.before, call.model)
    /\ call.follow # call.before.follow[call.model]
    /\ \E i \in 1..Len(reg.hier[call.model]) :
            ~is_registered(call.before, reg.hier[call.model][i].cls)

C13_LogOutsideBoundary ==
    \A t \in Contexts :
        /\ units[t].pc = "logged" =>
                /\ locals[t] = Cleared
                /\ units[t].outside # NoComment
                /\ units[t].hostlog = <<units[t].outside>>
        /\ units[t].pc = "in" =>
                /\ locals[t].depth = 1
                /\ locals[t].comment = NoComment
        /\ units[t].pc = "saved" =>
                /\ locals[t].comment = units[t].message
                /\ units[t].message # NoComment
                /\ Last(units[t].hostlog) = units[t].message

\* A unit that logged a change outside any boundary, then opened its
\* boundary and logged an addition inside it.
C13_Witness ==
    /\ units["t1"].pc = "saved"
    /\ units["t1"].outside = Comment("Changed.", 0)
    /\ units["t1"].message = Comment("Initial version.", 0)
    /\ Len(units["t1"].hostlog) = 2
    /\ locals["t1"].comment = Comment("Initial version.", 0)

\* The position in the request's trace of the first step with this name.
At(op) == CHOOSE i \in 1..Len(events) :
                /\ events[i].op = op
                /\ \A j \in 1..(i - 1) : events[j].op # op

\* The call raised the deliberate abort and has returned.
PreviewPath == IsRF /\ JustReturned /\ Did("raise")

\* C14. Materialize before unwind: on the preview path the response is
\* rendered after the revert and the change workflow were applied and
\* before the boundary and the transaction are left; the artifact rendered
\* is the mutated state, the rows are back at the state before the call
\* once the transaction is left, and the response returned is the one that
\* was rendered.
C14_MaterializeBeforeUnwind ==
    PreviewPath =>
        /\ Did("revert") /\ Did("changeform") /\ Did("render")
        /\ Did("scope_exit") /\ Did("atomic_exit")
        /\ At("revert") < At("changeform")
        /\ At("changeform") < At("render")
        /\ At("render") < At("raise")
        /\ At("raise") < At("scope_exit")
        /\ At("scope_exit") < At("atomic_exit")
        /\ Ev("render").ents = Ev("changeform").ents
        /\ response.rendered
        /\ response.template = "revision_form"
        /\ response.artifact = Ev("changeform").ents
        /\ Ev("atomic_exit").ents = pre.cur.ents
        /\ result.kind = "response"
        /\ result.response = response

\* A preview whose artifact shows rows other than those before the call,
\* which are the rows again after it.
C14_Witness ==
    /\ PreviewPath
    /\ result.response.rendered
    /\ result.response.artifact # pre.cur.ents
    /\ result.response.artifact = Ev("revert").ents
    /\ db.cur.ents = pre.cur.ents

\* C15. Decision rule: when the revert and the change workflow both
\* succeed, the view keeps the changes (sets the comment, does not render,
\* does not raise) exactly when the method is POST and the status is 302;
\* in every other case it renders, raises the abort, returns the response
\* and leaves the database as it was before the call.
C15_DecisionRule ==
    ( /\ IsRF /\ JustReturned
      /\ Did("changeform") /\ Ev("changeform").exc = NoExc ) =>
        /\ (req.method = "POST" /\ response.status = 302) =>
                /\ Did("set_comment")
                /\ ~Did("raise") /\ ~Did("render")
        /\ ~(req.method = "POST" /\ response.status = 302) =>
                /\ Did("raise") /\ Did("render")
                /\ ~Did("set_comment")
                /\ result.kind = "response"
                /\ db = pre

\* A POST answered with a form (status 200) after the workflow had saved:
\* previewed and rolled back.
C15_Witness ==
    /\ IsRF /\ JustReturned
    /\ req.method = "POST" /\ response.status = 200
    /\ Ev("changeform").touched # {}
    /\ Ev("changeform").ents # pre.cur.ents
    /\ Did("raise")
    /\ db = pre

\* C16. Commit-path comment: the view sets the "Reverted to previous
\* version, saved on <date of the reverted revision>" comment after the
\* change workflow ran and before the boundary is left, so it replaces the
\* comment log_change set; every revision row written for the request
\* carries it and the requesting user.
C16_CommitComment ==
    (IsRF /\ Did("set_comment")) =>
        /\ At("changeform") < At("set_comment")
        /\ Ev("set_comment").comment = RevertedComment(req.version)
        /\ Did("scope_exit") => At("set_comment") < At("scope_exit")
        /\ \A i \in PersistSteps :
                /\ i > At("set_comment")
                /\ events[i].nrevs <= Len(db.cur.revs) =>
                        /\ db.cur.revs[events[i].nrevs].comment
                                = RevertedComment(req.version)
                        /\ db.cur.revs[events[i].nrevs].user = req.user

\* A committed revert whose change workflow had logged its own comment:
\* the new revision row carries the revert comment.
C16_Witness ==
    /\ CommitReturned
    /\ Ev("changeform").comment = Comment("Changed.", 0)
    /\ Len(db.cur.revs) = Len(pre.cur.revs) + 1
    /\ Last(db.cur.revs).comment = RevertedComment(req.version)
    /\ Last(db.cur.revs).user = req.user

\* A step of the request at which writing the revision failed.
PersistFailed == \E i \in 1..Len(events) : events[i].exc = PersistenceFailure

\* C17 as stated. On the commit path the revision is written when the
\* view's boundary closes, inside the view's transaction; when the write
\* fails the failure reaches the caller, the database is as it was before
\* the call (no mutation, no partial revision row) and the boundary is
\* cleared.
C17_AsClaimed ==
    (IsRF /\ pc = "done" /\ Did("set_comment")) =>
        /\ \A i \in PersistSteps :
                events[i].op = "scope_exit" /\ i < At("atomic_exit")
        /\ PersistFailed =>
                /\ result.kind = "error"
                /\ result.exc = PersistenceFailure
                /\ db = pre
                /\ ctx = Cleared

\* C17 as amended. When the view's boundary is the outermost one, the
\* revision is written as that boundary closes, inside the view's
\* transaction and before it is released; if the write fails the failure
\* reaches the caller, the database is as it was before the call and the
\* boundary is cleared.  When the host has a boundary open around the view,
\* closing the view's boundary writes nothing and cannot fail; the revision
\* is written when the host's outermost boundary closes, after the view's
\* transaction was released.
C17_PersistenceFailure ==
    (IsRF /\ Did("set_comment") /\ Did("scope_exit")) =>
        /\ req.nest = 0 =>
                /\ \A i \in PersistSteps : i = At("scope_exit")
                /\ ctx = Cleared
                /\ (pc = "done" /\ PersistFailed) =>
                        /\ Ev("scope_exit").exc = PersistenceFailure
                        /\ result.kind = "error"
                        /\ result.exc = PersistenceFailure
                        /\ db = pre
        /\ req.nest > 0 =>
                /\ Ev("scope_exit").exc = NoExc
                /\ Ev("scope_exit").depth = req.nest
                /\ Ev("scope_exit").nrevs = Ev("set_comment").nrevs
                /\ \A i \in PersistSteps :
                        /\ events[i].op = "host_exit"
                        /\ Did("atomic_exit") /\ i > At("atomic_exit")

\* A commit whose revision write failed after a row had been written, the
\* view's boundary being the outermost one: the error came out and the rows
\* are those before the call.
C17_Witness ==
    /\ IsRF /\ pc = "done" /\ Did("set_comment")
    /\ req.nest = 0
    /\ Ev("scope_exit").exc = PersistenceFailure
    /\ Ev("scope_exit").nrevs > Ev("set_comment").nrevs
    /\ Ev("set_comment").ents # pre.cur.ents
    /\ result.kind = "error"
    /\ db = pre

\* No element occurs twice in the sequence.
NoRepeat(s) == \A i, j \in 1..Len(s) : s[i] = s[j] => i = j

\* C18. No double-follow: the follow fields registered for a type hold no
\* field name more than once, whether the type was registered by
\* _reversion_autoregister or by the construction of an admin.
C18_NoDoubleFollow ==
    \A t \in reg.registered : NoRepeat(reg.follow[t])

\* The sequence s with the elements outside S left out.
Only(s, S) == SelectSeq(s, LAMBDA x : x \in S)

\* C19. Root grouping is complete after setup: after the construction of
\* an admin for a model that was not registered, the model of every inline
\* is registered, and the follow fields registered for the admin's model
\* hold the follow fields of its inlines, in declaration order.
C19_RootGroupingComplete ==
    (call.op = "init" /\ ~is_registered(call.before, call.model)) =>
        LET h == reg.hier
            fs == InlineFields(h, call.model, call.inlines)
        IN /\ is_registered(reg, call.model)
           /\ \A i \in 1..Len(call.inlines) :
                LET x == reversion_introspect_inline_admin(h, call.model,
                                                          call.inlines[i])
                IN x.inline_model # None => is_registered(reg, x.inline_model)
           /\ Only(reg.follow[call.model], {fs[i] : i \in 1..Len(fs)}) = fs

\* C20. Each type is registered at most once: register is invoked once for
\* every registered type and never again, so a call of __init__ or of
\* _reversion_autoregister returns with its model registered, having
\* registered only types that were not registered, each once, and having
\* left the earlier registrations and their follow fields as they were.
C20_RegisteredOnce ==
    /\ NoRepeat(reg.order)
    /\ {reg.order[i] : i \in 1..Len(reg.order)} = reg.registered
    /\ call.op \in {"autoregister", "init"} =>
            /\ is_registered(reg, call.model)
            /\ SubSeq(reg.order, 1, Len(call.before.order)) = call.before.order
            /\ \A t \in call.before.registered :
                    reg.follow[t] = call.before.follow[t]
            /\ \A i \in 1..Len(Registered) :
                    ~is_registered(call.before, Registered[i])

\* On the diamond, with nothing registered, an admin whose two inlines name
\* the same part type was constructed: the four types were registered, the
\* shared supertype once.
C20_Witness ==
    /\ call.op = "init"
    /\ reg.hier = Diamond
    /\ call.before.registered = {}
    /\ Len(call.inlines) = 2
    /\ call.inlines[1].model = call.inlines[2].model
    /\ reg.registered = Types
    /\ Len(reg.order) = 4
    /\ reg.order[1] = "A"

====
